---- MODULE Spec2Model ----
(***************************************************************************)
(* Model of the GSM8K baseline runner (src/prompt_runner.py).              *)
(*                                                                         *)
(* Python strings are sequences of one-character strings.  Optional[str]   *)
(* is None == <<>> or Some(s) == <<s>>.  Four specifications share the     *)
(* module:                                                                 *)
(*   SpecExtract  extract_gsm8k_answer applied to bounded texts            *)
(*   SpecScore    evaluate_gsm8k_response applied to (raw, reference)      *)
(*   SpecPrompt   create_gsm8k_prompt applied to (question, examples)      *)
(*   Spec         the script: credential check, loading, evaluation loop   *)
(***************************************************************************)
EXTENDS Integers, Sequences, FiniteSets, TLC

VARIABLES
    \* SpecExtract: the argument, the returned value, the caller's position
    ex_text, ex_result, ex_pc,
    \* SpecScore: the two arguments, the returned verdicts, the caller's position
    sc_raw, sc_ref, sc_verdict, sc_again, sc_pc,
    \* SpecPrompt: the two arguments, the returned prompt, the positions the
    \* caller swapped, the prompt built after the swap, the caller's position
    pb_question, pb_examples, pb_prompt, pb_swap, pb_swapped, pb_pc,
    \* Spec, the environment: the credential, the two data files (None: the
    \* file cannot be loaded)
    ANTHROPIC_API_KEY, few_shot_file, dev_file,
    \* Spec, the script: its position, the provider client, the loaded lists,
    \* the loop's position and accumulators, the returned accuracy
    pc, client, few_shot_examples, dev_set, idx,
    correct_predictions, total_predictions, failure_cases, accuracy,
    \* Spec, observers: the provider's log (each request with what the
    \* provider did with it), the errors printed
    calls, reported

exVars == <<ex_text, ex_result, ex_pc>>

scVars == <<sc_raw, sc_ref, sc_verdict, sc_again, sc_pc>>

pbVars == <<pb_question, pb_examples, pb_prompt, pb_swap, pb_swapped, pb_pc>>

envVars == <<ANTHROPIC_API_KEY, few_shot_file, dev_file>>

loopVars == <<idx, correct_predictions, total_predictions, failure_cases>>

mainVars ==
    <<envVars, pc, client, few_shot_examples, dev_set, loopVars, accuracy, calls,
      reported>>

vars == <<exVars, scVars, pbVars, mainVars>>

---------------------------------------------------------------------------
(* Optional values and Python truthiness                                   *)

None == <<>>

Some(x) == <<x>>

\* body(value) with the value computed once, as a Python local is: the
\* bound x is a value, where a LET name is re-evaluated at each use.
Let(value, body(_)) == CHOOSE r \in {body(x) : x \in {value}} : TRUE

\* Python's `if value:` for an Optional[str]: None and "" are falsy.
Truthy(opt) == opt # None /\ opt[1] # <<>>

---------------------------------------------------------------------------
(* Character classes of the regular expressions                            *)

Digits == {"0", "1", "2", "3", "4", "5", "6", "7", "8", "9"}

\* \s
Spaces == {" ", "\n", "\t"}

\* [-\d\.,]
MarkerLiteralChars == Digits \cup {"-", ".", ","}

\* [\d,]
DigitsAndComma == Digits \cup {","}

\* [-+]
Signs == {"-", "+"}

IsSpace(c) == c \in Spaces

IsDigit(c) == c \in Digits

IsSign(c) == c \in Signs

\* The first index q >= p whose character is not in class (Len(t)+1 if
\* there is none): the end of a greedy [class]* started at p.
SkipWhile(t, p, class) ==
    CHOOSE q \in p..(Len(t) + 1) :
        /\ \A k \in p..(q - 1) : t[k] \in class
        /\ (q = Len(t) + 1 \/ t[q] \notin class)

\* str.replace(',', '')
RemoveCommas(s) == SelectSeq(s, LAMBDA c : c # ",")

\* str.strip()
StripValue(s) ==
    Let(SkipWhile(s, 1, Spaces), LAMBDA first :
        IF first > Len(s) THEN <<>>
        ELSE SubSeq(s, first,
                    CHOOSE e \in first..Len(s) :
                        /\ ~IsSpace(s[e])
                        /\ \A k \in (e + 1)..Len(s) : IsSpace(s[k])))

Strip(s) == Let(s, StripValue)

---------------------------------------------------------------------------
(* re.search(r"####\s*([-\d\.,]+)", text)                                  *)

MarkerAt(t, p) == p + 3 <= Len(t) /\ \A k \in 0..3 : t[p + k] = "#"

\* Where group 1 starts if the pattern matches at p, 0 otherwise.
MarkerGroupStart(t, p) ==
    IF ~MarkerAt(t, p) THEN 0
    ELSE LET q == SkipWhile(t, p + 4, Spaces)
         IN  IF q <= Len(t) /\ t[q] \in MarkerLiteralChars THEN q ELSE 0

\* None, or Some(group 1) of the leftmost match.
SearchMarker(t) ==
    Let({p \in 1..Len(t) : MarkerGroupStart(t, p) # 0}, LAMBDA hits :
        IF hits = {} THEN None
        ELSE Let(MarkerGroupStart(t, CHOOSE h \in hits : \A o \in hits : h <= o),
                 LAMBDA q :
                     Some(SubSeq(t, q, SkipWhile(t, q, MarkerLiteralChars) - 1))))

---------------------------------------------------------------------------
(* re.findall(r"[-+]?\s*[\d,]+\.?\d*|[-+]?\s*\.?[\d,]+", text)             *)

\* Index after the optional sign and the whitespace at p.
AfterSignAndSpace(t, p) ==
    LET q == IF p <= Len(t) /\ IsSign(t[p]) THEN p + 1 ELSE p
    IN  SkipWhile(t, q, Spaces)

\* First alternative at p: index after the match, 0 if it does not match.
NumberAlt1End(t, p) ==
    LET r == AfterSignAndSpace(t, p)
    IN  IF r > Len(t) \/ t[r] \notin DigitsAndComma THEN 0
        ELSE LET s == SkipWhile(t, r, DigitsAndComma)
                 d == IF s <= Len(t) /\ t[s] = "." THEN s + 1 ELSE s
             IN  SkipWhile(t, d, Digits)

\* Second alternative at p: index after the match, 0 if it does not match.
NumberAlt2End(t, p) ==
    LET r == AfterSignAndSpace(t, p)
        d == IF r <= Len(t) /\ t[r] = "." THEN r + 1 ELSE r
    IN  IF d > Len(t) \/ t[d] \notin DigitsAndComma THEN 0
        ELSE SkipWhile(t, d, DigitsAndComma)

NumberMatchEnd(t, p) ==
    IF NumberAlt1End(t, p) # 0 THEN NumberAlt1End(t, p) ELSE NumberAlt2End(t, p)

\* The non-overlapping matches from position p on, left to right.
RECURSIVE FindAllNumbers(_, _)
FindAllNumbers(t, p) ==
    IF p > Len(t) THEN <<>>
    ELSE Let(NumberMatchEnd(t, p), LAMBDA e :
             IF e = 0 THEN FindAllNumbers(t, p + 1)
             ELSE <<SubSeq(t, p, e - 1)>> \o FindAllNumbers(t, e))

---------------------------------------------------------------------------
(* extract_gsm8k_answer                                                    *)

\* Lines 41-57, for a non-empty text.
ExtractFrom(t) ==
    Let(SearchMarker(t), LAMBDA match :
        IF match # None
        THEN Some(Strip(RemoveCommas(match[1])))
        ELSE Let(FindAllNumbers(t, 1), LAMBDA numbers :
                 IF numbers = <<>> THEN None
                 ELSE Let(Strip(RemoveCommas(numbers[Len(numbers)])),
                          LAMBDA last_number_str :
                              IF last_number_str # <<>> /\ last_number_str # <<".">>
                              THEN Some(last_number_str)
                              ELSE None)))

extract_gsm8k_answer(text_output) ==
    Let(text_output, LAMBDA text :
        IF ~Truthy(text) THEN None ELSE ExtractFrom(text[1]))

---------------------------------------------------------------------------
(* Bounded texts: concatenations of at most MaxPieces pieces               *)

MaxPieces == 4

Marker == <<"#", "#", "#", "#">>

Pieces ==
    {Marker, <<" ">>, <<"1">>, <<"0">>, <<",">>, <<".">>, <<"-">>, <<"+">>, <<"a">>}

RECURSIVE Concat(_)
Concat(ss) == IF ss = <<>> THEN <<>> ELSE Head(ss) \o Concat(Tail(ss))

TextsOf(n) == {Concat(f) : f \in [1..n -> Pieces]}

Texts(max) == UNION {TextsOf(n) : n \in 0..max}

---------------------------------------------------------------------------
(* float(s) on the characters the model uses: optional surrounding         *)
(* whitespace, an optional sign, digits with at most one decimal point and *)
(* at least one digit.  Anything else raises ValueError.                   *)

DigitChars == <<"0", "1", "2", "3", "4", "5", "6", "7", "8", "9">>

DigitValue(c) == (CHOOSE n \in 1..10 : DigitChars[n] = c) - 1

\* The stripped string without its sign.
Unsigned(s) ==
    Let(Strip(s), LAMBDA u : IF u # <<>> /\ IsSign(u[1]) THEN Tail(u) ELSE u)

\* float(s) does not raise ValueError.
float_parses(s) ==
    \E b \in {Unsigned(s)} :
        /\ \A k \in 1..Len(b) : IsDigit(b[k]) \/ b[k] = "."
        /\ Cardinality({k \in 1..Len(b) : b[k] = "."}) <= 1
        /\ \E k \in 1..Len(b) : IsDigit(b[k])

RECURSIVE ToNat(_)
ToNat(ds) ==
    Let(ds, LAMBDA d :
        IF d = <<>> THEN 0
        ELSE ToNat(SubSeq(d, 1, Len(d) - 1)) * 10 + DigitValue(d[Len(d)]))

\* float(s) as the exact decimal sign * mant / 10^scale.
float(s) ==
    Let(Strip(s), LAMBDA u :
    Let(Unsigned(u), LAMBDA b :
    Let({k \in 1..Len(b) : b[k] = "."}, LAMBDA dot :
        [sign  |-> IF u # <<>> /\ u[1] = "-" THEN -1 ELSE 1,
         mant  |-> ToNat(SelectSeq(b, IsDigit)),
         scale |-> IF dot = {} THEN 0 ELSE Len(b) - (CHOOSE k \in dot : TRUE)])))

RECURSIVE Pow10(_)
Pow10(n) == IF n = 0 THEN 1 ELSE 10 * Pow10(n - 1)

Abs(n) == IF n < 0 THEN -n ELSE n

\* 1e-5 is 10^-ToleranceDigits
ToleranceDigits == 5

\* abs(pred_float - ref_float) < 1e-5, on exact decimals:
\* |a/10^i - b/10^j| < 10^-5  iff  |a*10^j - b*10^i| * 10^5 < 10^(i+j).
WithinTolerance(pred_float, ref_float) ==
    \E p \in {pred_float}, r \in {ref_float} :
    \E m \in {IF p.scale > r.scale THEN p.scale ELSE r.scale} :
    \E d \in {Abs(p.sign * p.mant * Pow10(m - p.scale)
                   - r.sign * r.mant * Pow10(m - r.scale))} :
        IF m >= ToleranceDigits THEN d < Pow10(m - ToleranceDigits) ELSE d = 0

---------------------------------------------------------------------------
(* evaluate_gsm8k_response                                                 *)

\* Mutant: the answers are compared as strings only.
EvaluateStringsOnly(llm_output_str, reference_final_answer_str) ==
    IF reference_final_answer_str = None THEN FALSE
    ELSE \E predicted_answer_str \in {extract_gsm8k_answer(Some(llm_output_str))} :
             IF predicted_answer_str = None THEN FALSE
             ELSE Strip(predicted_answer_str[1])
                      = Strip(reference_final_answer_str[1])

evaluate_gsm8k_response(llm_output_str, reference_final_answer_str) ==
    IF reference_final_answer_str = None THEN FALSE
    ELSE \E predicted_answer_str \in {extract_gsm8k_answer(Some(llm_output_str))} :
             IF predicted_answer_str = None THEN FALSE
             ELSE IF /\ float_parses(predicted_answer_str[1])
                     /\ float_parses(reference_final_answer_str[1])
                  THEN WithinTolerance(float(predicted_answer_str[1]),
                                       float(reference_final_answer_str[1]))
                  ELSE Strip(predicted_answer_str[1])
                           = Strip(reference_final_answer_str[1])

---------------------------------------------------------------------------
(* create_gsm8k_prompt                                                     *)

Preamble ==
    <<"S", "o", "l", "v", "e", " ", "t", "h", "e", " ", "f", "o", "l", "l", "o", "w",
      "i", "n", "g", " ", "m", "a", "t", "h", " ", "p", "r", "o", "b", "l", "e", "m",
      "s", " ", "s", "t", "e", "p", "-", "b", "y", "-", "s", "t", "e", "p", ".", " ",
      "Y", "o", "u", "r", " ", "f", "i", "n", "a", "l", " ", "a", "n", "s", "w", "e",
      "r", " ", "s", "h", "o", "u", "l", "d", " ", "b", "e", " ", "d", "e", "m", "a",
      "r", "c", "a", "t", "e", "d", " ", "w", "i", "t", "h", " ", "#", "#", "#", "#",
      " ", "f", "o", "l", "l", "o", "w", "e", "d", " ", "b", "y", " ", "t", "h", "e",
      " ", "n", "u", "m", "b", "e", "r", ".", "\n", "\n">>

QuestionLabel == <<"Q", "u", "e", "s", "t", "i", "o", "n", ":", " ">>

AnswerLabel == <<"A", "n", "s", "w", "e", "r", ":", " ">>

AnswerCue == <<"A", "n", "s", "w", "e", "r", ":">>

\* The for loop: one "Question: ...\nAnswer: ...\n\n" appended per example.
RECURSIVE AppendExamples(_, _)
AppendExamples(prompt_string, examples) ==
    IF examples = <<>> THEN prompt_string
    ELSE LET ex == Head(examples)
         IN  AppendExamples(
                 prompt_string
                     \o QuestionLabel \o ex.question \o <<"\n">>
                     \o AnswerLabel \o ex.answer \o <<"\n", "\n">>,
                 Tail(examples))

\* Mutant: the examples are appended last to first.
ReverseSeq(l) == [k \in 1..Len(l) |-> l[Len(l) + 1 - k]]

CreatePromptReversed(question_to_solve, few_shot_examples_list) ==
    AppendExamples(Preamble, ReverseSeq(few_shot_examples_list))
        \o QuestionLabel \o question_to_solve \o <<"\n">>
        \o AnswerCue

create_gsm8k_prompt(question_to_solve, few_shot_examples_list) ==
    AppendExamples(Preamble, few_shot_examples_list)
        \o QuestionLabel \o question_to_solve \o <<"\n">>
        \o AnswerCue

---------------------------------------------------------------------------
(* get_llm_completion: what the provider did with the request is the       *)
(* environment's choice: it raised, it answered with no content block, or  *)
(* it answered with a text.                                                *)

get_llm_completion(prompt_text, response) ==
    IF response.kind = "text" THEN Some(response.text) ELSE None

---------------------------------------------------------------------------
(* run_baseline_evaluation: the loop body and the summary                  *)

ERROR_NO_RESPONSE ==
    <<"E", "R", "R", "O", "R", "_", "N", "O", "_", "R", "E", "S", "P", "O", "N", "S",
      "E">>

\* Mutant: the raw output of a failed call is left empty.
NoResponseCaseNoSentinel(record, full_prompt) ==
    [id                     |-> record.id,
     question               |-> record.question,
     reference_solution     |-> record.reference_answer_details,
     reference_final_answer |-> record.reference_final_answer,
     generated_prompt       |-> full_prompt,
     llm_output             |-> None,
     extracted_prediction   |-> None]

\* The failure case of a record the provider gave no text for.
NoResponseCase(record, full_prompt) ==
    [id                     |-> record.id,
     question               |-> record.question,
     reference_solution     |-> record.reference_answer_details,
     reference_final_answer |-> record.reference_final_answer,
     generated_prompt       |-> full_prompt,
     llm_output             |-> Some(ERROR_NO_RESPONSE),
     extracted_prediction   |-> None]

\* Mutant: the extracted prediction is not recorded.
IncorrectCaseNoPrediction(record, full_prompt, llm_output) ==
    [id                     |-> record.id,
     question               |-> record.question,
     reference_solution     |-> record.reference_answer_details,
     reference_final_answer |-> record.reference_final_answer,
     generated_prompt       |-> full_prompt,
     llm_output             |-> llm_output,
     extracted_prediction   |-> None]

\* The failure case of a record whose output was scored incorrect.
IncorrectCase(record, full_prompt, llm_output) ==
    [id                     |-> record.id,
     question               |-> record.question,
     reference_solution     |-> record.reference_answer_details,
     reference_final_answer |-> record.reference_final_answer,
     generated_prompt       |-> full_prompt,
     llm_output             |-> llm_output,
     extracted_prediction   |-> extract_gsm8k_answer(llm_output)]

\* Mutant: a record without a response is not counted as processed.
RecordOutcomeSkipTotal(record, full_prompt, llm_output) ==
    IF Truthy(llm_output)
    THEN /\ IF evaluate_gsm8k_response(llm_output[1], record.reference_final_answer)
            THEN /\ correct_predictions' = correct_predictions + 1
                 /\ UNCHANGED failure_cases
            ELSE /\ failure_cases' =
                        Append(failure_cases,
                               IncorrectCase(record, full_prompt, llm_output))
                 /\ UNCHANGED correct_predictions
         /\ total_predictions' = total_predictions + 1
    ELSE /\ failure_cases' =
                Append(failure_cases, NoResponseCase(record, full_prompt))
         /\ UNCHANGED <<correct_predictions, total_predictions>>

\* Lines 155-182: what one record adds to the counters and the failure list.
RecordOutcome(record, full_prompt, llm_output) ==
    /\ IF Truthy(llm_output)
       THEN IF evaluate_gsm8k_response(llm_output[1], record.reference_final_answer)
            THEN /\ correct_predictions' = correct_predictions + 1
                 /\ UNCHANGED failure_cases
            ELSE /\ failure_cases' =
                        Append(failure_cases,
                               IncorrectCase(record, full_prompt, llm_output))
                 /\ UNCHANGED correct_predictions
       ELSE /\ failure_cases' =
                   Append(failure_cases, NoResponseCase(record, full_prompt))
            /\ UNCHANGED correct_predictions
    /\ total_predictions' = total_predictions + 1

\* Mutant: a provider error is not caught and ends the run.
LoopBodyUncaught(response) ==
    \E record \in {dev_set[1][idx + 1]} :
    \E full_prompt \in {create_gsm8k_prompt(record.question, few_shot_examples[1])} :
    \E llm_output \in {get_llm_completion(full_prompt, response)} :
        /\ calls' = Append(calls, [record   |-> idx + 1,
                                   prompt   |-> full_prompt,
                                   response |-> response])
        /\ IF response.kind = "raise"
           THEN pc' = "crashed" /\ UNCHANGED loopVars
           ELSE /\ RecordOutcome(record, full_prompt, llm_output)
                /\ idx' = idx + 1
                /\ UNCHANGED pc

\* One iteration of the for loop over dev_set, the provider answering
\* `response`.
LoopBody(response) ==
    \E record \in {dev_set[1][idx + 1]} :
    \E full_prompt \in {create_gsm8k_prompt(record.question, few_shot_examples[1])} :
    \E llm_output \in {get_llm_completion(full_prompt, response)} :
        /\ calls' = Append(calls, [record   |-> idx + 1,
                                   prompt   |-> full_prompt,
                                   response |-> response])
        /\ RecordOutcome(record, full_prompt, llm_output)
        /\ idx' = idx + 1
        /\ UNCHANGED pc

\* Rationals n/d as [num |-> n, den |-> d]; floats are taken as exact.
Ratio(n, d) == [num |-> n, den |-> d]

RatEq(r, q) == r.num * q.den = q.num * r.den

\* Mutant: the division is not guarded.
ComputeAccuracyUnguarded(correct, total) == Ratio(correct * 100, total)

\* (correct_predictions / total_predictions) * 100 if total_predictions > 0
\* else 0.0
ComputeAccuracy(correct, total) ==
    IF total > 0 THEN Ratio(correct * 100, total) ELSE Ratio(0, 1)

---------------------------------------------------------------------------
(* SpecExtract: a caller hands a text (or None) to extract_gsm8k_answer    *)

ExtractIdle == ex_text = None /\ ex_result = None /\ ex_pc = "idle"

ScoreIdle ==
    /\ sc_raw = <<>> /\ sc_ref = None
    /\ sc_verdict = FALSE /\ sc_again = FALSE /\ sc_pc = "idle"

PromptIdle ==
    /\ pb_question = <<>> /\ pb_examples = <<>> /\ pb_prompt = <<>>
    /\ pb_swap = <<>> /\ pb_swapped = <<>> /\ pb_pc = "idle"

MainIdle ==
    /\ ANTHROPIC_API_KEY = None /\ few_shot_file = None /\ dev_file = None
    /\ pc = "idle" /\ client = None
    /\ few_shot_examples = None /\ dev_set = None
    /\ idx = 0 /\ correct_predictions = 0 /\ total_predictions = 0
    /\ failure_cases = <<>> /\ accuracy = None
    /\ calls = <<>> /\ reported = <<>>

ExtractInit ==
    /\ ex_text \in {None} \cup {Some(t) : t \in Texts(MaxPieces)}
    /\ ex_result = None
    /\ ex_pc = "call"
    /\ ScoreIdle
    /\ PromptIdle
    /\ MainIdle

ExtractCall ==
    /\ ex_pc = "call"
    /\ ex_result' = extract_gsm8k_answer(ex_text)
    /\ ex_pc' = "returned"
    /\ UNCHANGED <<ex_text, scVars, pbVars, mainVars>>

SpecExtract == ExtractInit /\ [][ExtractCall]_vars

---------------------------------------------------------------------------
(* SpecScore: a caller scores a (raw output, reference) pair, then scores  *)
(* the same pair again                                                     *)

MaxRawPieces == 3

SampleOutputs ==
    {Marker \o <<" ", "1", "0">>,
     Marker \o <<" ", "1", "1">>,
     <<"n", "o", " ", "n", "u", "m", "b", "e", "r", " ", "h", "e", "r", "e">>,
     <<"1", "0", ",", " ", "o", "k", ",">>}

RawOutputs == Texts(MaxRawPieces) \cup SampleOutputs

References ==
    {None} \cup
    {Some(r) : r \in {<<"1", "0">>, <<"1", "0", ".", "0">>, <<"1", "1">>,
                      <<" ", "1", "0", " ">>, <<"1">>, <<"-", "1">>, <<"1", ".">>,
                      <<"1", ".", "0", "0", "0", "0", "0", "1">>,
                      <<"1", ".", "0", "0", "0", "0", "1">>,
                      <<"1", ".", "0", "0", "0", "1">>,
                      <<".">>, <<>>, <<"a">>, <<"-">>}}

ScoreInit ==
    /\ sc_raw \in RawOutputs
    /\ sc_ref \in References
    /\ sc_verdict = FALSE
    /\ sc_again = FALSE
    /\ sc_pc = "call"
    /\ ExtractIdle
    /\ PromptIdle
    /\ MainIdle

ScoreCall ==
    /\ sc_pc = "call"
    /\ sc_verdict' = evaluate_gsm8k_response(sc_raw, sc_ref)
    /\ sc_pc' = "scored"
    /\ UNCHANGED <<sc_raw, sc_ref, sc_again, exVars, pbVars, mainVars>>

ScoreAgain ==
    /\ sc_pc = "scored"
    /\ sc_again' = evaluate_gsm8k_response(sc_raw, sc_ref)
    /\ sc_pc' = "rescored"
    /\ UNCHANGED <<sc_raw, sc_ref, sc_verdict, exVars, pbVars, mainVars>>

SpecScore == ScoreInit /\ [][ScoreCall \/ ScoreAgain]_vars

---------------------------------------------------------------------------
(* SpecPrompt: a caller builds a prompt, then swaps two of the examples    *)
(* and builds it again                                                     *)

MaxShots == 3

Questions == {<<"2", "+", "2", "?">>, <<"x", "?">>}

ExampleA == [question |-> <<"a", "?">>, answer |-> Marker \o <<" ", "1">>]

ExampleB ==
    [question |-> <<"b", "c", "?">>, answer |-> <<"s", "o", " ">> \o Marker \o <<"2">>]

ExampleC == [question |-> <<"d">>, answer |-> <<"3">>]

FewShotExamples == {ExampleA, ExampleB, ExampleC}

ExampleLists(max) == UNION {[1..n -> FewShotExamples] : n \in 0..max}

\* The list with the entries at positions i and j exchanged.
SwapExamples(examples, i, j) ==
    [k \in 1..Len(examples) |->
        IF k = i THEN examples[j] ELSE IF k = j THEN examples[i] ELSE examples[k]]

PromptInit ==
    /\ pb_question \in Questions
    /\ pb_examples \in ExampleLists(MaxShots)
    /\ pb_prompt = <<>>
    /\ pb_swap = <<>>
    /\ pb_swapped = <<>>
    /\ pb_pc = "call"
    /\ ExtractIdle
    /\ ScoreIdle
    /\ MainIdle

PromptCall ==
    /\ pb_pc = "call"
    /\ pb_prompt' = create_gsm8k_prompt(pb_question, pb_examples)
    /\ pb_pc' = "built"
    /\ UNCHANGED <<pb_question, pb_examples, pb_swap, pb_swapped, exVars, scVars, mainVars>>

PromptSwapAndCall ==
    /\ pb_pc = "built"
    /\ \E i \in 1..Len(pb_examples), j \in 1..Len(pb_examples) :
          /\ i < j
          /\ pb_swap' = <<i, j>>
          /\ pb_swapped' =
                 create_gsm8k_prompt(pb_question, SwapExamples(pb_examples, i, j))
    /\ pb_pc' = "swapped"
    /\ UNCHANGED <<pb_question, pb_examples, pb_prompt, exVars, scVars, mainVars>>

SpecPrompt == PromptInit /\ [][PromptCall \/ PromptSwapAndCall]_vars

---------------------------------------------------------------------------
(* Spec: the script run once, against an environment that holds the        *)
(* credential, the two data files and the provider                         *)

MaxRecords == 2

\* The few-shot file: missing, empty, or holding one or two examples.
FewShotFiles ==
    {None, Some(<<>>), Some(<<ExampleA>>), Some(<<ExampleB, ExampleA>>)}

Keys == {None, Some(<<>>), Some(<<"k">>)}

References3 == {None, Some(<<"1", "0">>), Some(<<"1", "1">>)}

\* Dev rows as download_benchmark.py writes them: ids number the rows.
DevFiles(max) ==
    UNION {{[k \in 1..n |->
                [id                       |-> k - 1,
                 question                 |-> <<"x", "?">>,
                 reference_answer_details |-> <<"s">>,
                 reference_final_answer   |-> refs[k]]]
            : refs \in [1..n -> References3]} : n \in 0..max}

ProviderTexts ==
    {<<>>,
     Marker \o <<" ", "1", "0">>,
     <<"1", "0", ",", " ", "o", "k", ",">>,
     <<"n", "o">>}

\* text is read only when kind is "text".
Responses ==
    {[kind |-> "raise", text |-> <<>>], [kind |-> "no_content", text |-> <<>>]}
        \cup {[kind |-> "text", text |-> t] : t \in ProviderTexts}

Init ==
    /\ ANTHROPIC_API_KEY \in Keys
    /\ few_shot_file \in FewShotFiles
    /\ dev_file \in {None} \cup {Some(l) : l \in DevFiles(MaxRecords)}
    /\ pc = "main"
    /\ client = None
    /\ few_shot_examples = None
    /\ dev_set = None
    /\ idx = 0
    /\ correct_predictions = 0
    /\ total_predictions = 0
    /\ failure_cases = <<>>
    /\ accuracy = None
    /\ calls = <<>>
    /\ reported = <<>>
    /\ ExtractIdle
    /\ ScoreIdle
    /\ PromptIdle

\* Mutant: the client is created before the credential is checked.
MainMissingKeyClientFirst ==
    /\ pc = "main"
    /\ ~Truthy(ANTHROPIC_API_KEY)
    /\ client' = Some(<<>>)
    /\ reported' = Append(reported, "missing_key")
    /\ pc' = "done"
    /\ UNCHANGED <<envVars, few_shot_examples, dev_set, loopVars, accuracy,
                   calls, exVars, scVars, pbVars>>

\* Lines 198-200: no credential.
MainMissingKey ==
    /\ pc = "main"
    /\ ~Truthy(ANTHROPIC_API_KEY)
    /\ reported' = Append(reported, "missing_key")
    /\ pc' = "done"
    /\ UNCHANGED <<envVars, client, few_shot_examples, dev_set, loopVars, accuracy,
                   calls, exVars, scVars, pbVars>>

\* Lines 201-211: the client is created and the few-shot file loaded; a
\* file that cannot be loaded raises out of the script, an empty one is
\* reported.
MainLoad ==
    /\ pc = "main"
    /\ Truthy(ANTHROPIC_API_KEY)
    /\ client' = ANTHROPIC_API_KEY
    /\ IF few_shot_file = None
       THEN pc' = "crashed" /\ UNCHANGED <<few_shot_examples, reported>>
       ELSE /\ few_shot_examples' = few_shot_file
            /\ IF few_shot_file[1] = <<>>
               THEN pc' = "done" /\ reported' = Append(reported, "no_few_shot")
               ELSE pc' = "evaluate" /\ UNCHANGED reported
    /\ UNCHANGED <<envVars, dev_set, loopVars, accuracy, calls, exVars, scVars,
                   pbVars>>

\* Lines 132-139: run_baseline_evaluation loads the dev set and resets the
\* accumulators.
EvaluateStart ==
    /\ pc = "evaluate"
    /\ IF dev_file = None
       THEN pc' = "crashed" /\ UNCHANGED dev_set
       ELSE pc' = "loop" /\ dev_set' = dev_file
    /\ idx' = 0
    /\ correct_predictions' = 0
    /\ total_predictions' = 0
    /\ failure_cases' = <<>>
    /\ UNCHANGED <<envVars, client, few_shot_examples, accuracy, calls, reported,
                   exVars, scVars, pbVars>>

\* Lines 141-182: one record.
Iterate ==
    /\ pc = "loop"
    /\ idx < Len(dev_set[1])
    /\ \E response \in Responses : LoopBody(response)
    /\ UNCHANGED <<envVars, client, few_shot_examples, dev_set, accuracy, reported,
                   exVars, scVars, pbVars>>

\* Lines 188-194: the loop is exhausted; the accuracy is computed and
\* returned.
EvaluateReturn ==
    /\ pc = "loop"
    /\ idx = Len(dev_set[1])
    /\ accuracy' = Some(ComputeAccuracy(correct_predictions, total_predictions))
    /\ pc' = "report"
    /\ UNCHANGED <<envVars, client, few_shot_examples, dev_set, loopVars, calls,
                   reported, exVars, scVars, pbVars>>

\* Lines 220-229: the result is printed.
MainReport ==
    /\ pc = "report"
    /\ pc' = "done"
    /\ UNCHANGED <<envVars, client, few_shot_examples, dev_set, loopVars, accuracy,
                   calls, reported, exVars, scVars, pbVars>>

Next ==
    \/ MainMissingKey
    \/ MainLoad
    \/ EvaluateStart
    \/ Iterate
    \/ EvaluateReturn
    \/ MainReport

Spec == Init /\ [][Next]_vars

---------------------------------------------------------------------------
(* Properties of the evaluation loop (Spec)                                *)

\* run_baseline_evaluation has loaded the dev set: the loop has started.
LoopStarted == dev_set # None

\* The provider call failed or gave an empty result.
ProviderFailed(response) == response.kind # "text" \/ response.text = <<>>

\* The positions in failure_cases of the cases of the k-th record.
CasesOf(k) ==
    {j \in 1..Len(failure_cases) : failure_cases[j].id = dev_set[1][k].id}

RECURSIVE IsSubsequence(_, _)
IsSubsequence(a, b) ==
    IF a = <<>> THEN TRUE
    ELSE IF b = <<>> THEN FALSE
    ELSE IF Head(a) = Head(b) THEN IsSubsequence(Tail(a), Tail(b))
    ELSE IsSubsequence(a, Tail(b))

\* C1: the provider is called exactly once per target record, in record
\* order, whatever the provider does (text, empty result, error): the k-th
\* call carries the k-th record's prompt, no call is made outside the loop,
\* the run never ends inside the loop, and once the loop is left the number
\* of processed records is the number of target records.
C1_OneCallPerRecord ==
    /\ Len(calls) = total_predictions
    /\ (~LoopStarted => calls = <<>>)
    /\ (LoopStarted =>
          /\ total_predictions = idx
          /\ \A k \in 1..Len(calls) :
                /\ calls[k].record = k
                /\ calls[k].prompt =
                       create_gsm8k_prompt(dev_set[1][k].question,
                                           few_shot_examples[1]))
    /\ (pc = "crashed" => ~LoopStarted)
    /\ (pc \in {"report", "done"} /\ LoopStarted
          => total_predictions = Len(dev_set[1]))

\* C1 witness: a finished run of two or more records in which the provider
\* raised for the first record and answered the second.
C1_Witness ==
    /\ pc = "done"
    /\ LoopStarted
    /\ Len(calls) >= 2
    /\ calls[1].response.kind = "raise"
    /\ calls[2].response.kind = "text"
    /\ total_predictions = Len(dev_set[1])

\* C2: every record whose provider call failed or came back empty has
\* exactly one failure case, with raw output "ERROR_NO_RESPONSE" and no
\* extracted prediction, and adds nothing to the correct counter; when the
\* provider failed for every record the accuracy is 0 and the failure list
\* holds one such case per record.
C2_NoResponseRecorded ==
    LoopStarted =>
        /\ \A k \in 1..Len(calls) :
              ProviderFailed(calls[k].response) =>
                  /\ Cardinality(CasesOf(k)) = 1
                  /\ \A j \in CasesOf(k) :
                        /\ failure_cases[j].llm_output = Some(ERROR_NO_RESPONSE)
                        /\ failure_cases[j].extracted_prediction = None
        /\ correct_predictions
               <= Cardinality({k \in 1..Len(calls) :
                                  ~ProviderFailed(calls[k].response)})
        /\ (/\ pc \in {"report", "done"}
            /\ \A k \in 1..Len(calls) : ProviderFailed(calls[k].response))
              => /\ accuracy[1].den # 0
                 /\ accuracy[1].num = 0
                 /\ Len(failure_cases) = Len(dev_set[1])
                 /\ \A j \in 1..Len(failure_cases) :
                       failure_cases[j].llm_output = Some(ERROR_NO_RESPONSE)

\* C2 witness: a finished run of two or more records in which every call
\* failed, the first by raising and the second with an empty text.
C2_Witness ==
    /\ pc = "done"
    /\ LoopStarted
    /\ Len(calls) >= 2
    /\ \A k \in 1..Len(calls) : ProviderFailed(calls[k].response)
    /\ calls[1].response.kind = "raise"
    /\ calls[2].response.kind = "text"
    /\ Len(failure_cases) = Len(calls)
    /\ accuracy[1].num = 0

\* C3 as stated: the returned accuracy is correct / total, and 0 for an
\* empty record list.
C3_FractionAccuracy ==
    accuracy # None =>
        /\ accuracy[1].den # 0
        /\ IF total_predictions = 0 THEN accuracy[1].num = 0
           ELSE RatEq(accuracy[1], Ratio(correct_predictions, total_predictions))

\* C3 amended: the returned accuracy is (correct / total) * 100, the
\* percentage of correct predictions, and 0 with no division by zero for
\* an empty record list.
C3_PercentAccuracy ==
    accuracy # None =>
        /\ accuracy[1].den # 0
        /\ IF total_predictions = 0 THEN accuracy[1].num = 0
           ELSE RatEq(accuracy[1],
                      Ratio(100 * correct_predictions, total_predictions))

\* C3 witness: a returned accuracy of 50 (one correct record of two).
C3_Witness ==
    /\ pc = "done"
    /\ accuracy # None
    /\ correct_predictions = 1
    /\ total_predictions = 2
    /\ RatEq(accuracy[1], Ratio(50, 1))

\* The provider answered the k-th record with a non-empty text that cannot
\* be scored: the reference is absent or no answer can be extracted.
Unscorable(k) ==
    /\ ~ProviderFailed(calls[k].response)
    /\ \/ dev_set[1][k].reference_final_answer = None
       \/ extract_gsm8k_answer(Some(calls[k].response.text)) = None

\* C4: a record answered with a non-empty text whose reference is absent,
\* or from whose text no answer can be extracted, is scored false, is not
\* counted correct, has exactly one failure case carrying the built prompt,
\* the raw output and the extracted prediction, and the loop goes on.
C4_UnscorableCountedIncorrect ==
    LoopStarted =>
        /\ pc # "crashed"
        /\ total_predictions = Len(calls)
        /\ \A k \in 1..Len(calls) :
              Unscorable(k) =>
                  /\ ~evaluate_gsm8k_response(calls[k].response.text,
                                              dev_set[1][k].reference_final_answer)
                  /\ Cardinality(CasesOf(k)) = 1
                  /\ \A j \in CasesOf(k) :
                        /\ failure_cases[j].generated_prompt = calls[k].prompt
                        /\ failure_cases[j].llm_output
                               = Some(calls[k].response.text)
                        /\ failure_cases[j].extracted_prediction
                               = extract_gsm8k_answer(Some(calls[k].response.text))
        /\ correct_predictions
               <= Cardinality({k \in 1..Len(calls) :
                                  ~ProviderFailed(calls[k].response)
                                  /\ ~Unscorable(k)})

\* C4 witness: a finished run whose first record has no reference and was
\* answered "#### 10" (prediction "10" extracted), and whose second record
\* has a reference and was answered with a text holding no number.
C4_Witness ==
    /\ pc = "done"
    /\ LoopStarted
    /\ Len(calls) >= 2
    /\ dev_set[1][1].reference_final_answer = None
    /\ calls[1].response = [kind |-> "text", text |-> Marker \o <<" ", "1", "0">>]
    /\ dev_set[1][2].reference_final_answer # None
    /\ calls[2].response = [kind |-> "text", text |-> <<"n", "o">>]
    /\ Len(failure_cases) >= 2
    /\ failure_cases[1].extracted_prediction = Some(<<"1", "0">>)
    /\ failure_cases[2].extracted_prediction = None

\* C9 as stated: without a credential the script reports the error and
\* does nothing else; with one, nothing keeps the loop from running over
\* every record of the dev file.
C9_OnlyMissingCredentialStops ==
    /\ (~Truthy(ANTHROPIC_API_KEY) =>
          /\ pc \in {"main", "done"}
          /\ client = None /\ few_shot_examples = None /\ dev_set = None
          /\ calls = <<>> /\ total_predictions = 0
          /\ (pc = "done" => reported = <<"missing_key">>))
    /\ (/\ pc \in {"done", "crashed"}
        /\ Truthy(ANTHROPIC_API_KEY)
        /\ few_shot_file # None
        /\ dev_file # None)
          => /\ pc = "done"
             /\ total_predictions = Len(dev_file[1])
             /\ Len(calls) = Len(dev_file[1])

\* C9 amended: without a credential the script reports the error and does
\* nothing else (no file loaded, no client, no provider call, no loop).
\* With one, the loop runs over every record of the dev file unless the
\* few-shot file holds no example (reported, the loop never starts) or a
\* data file cannot be loaded (the script ends on the exception before any
\* provider call); once started the loop is ended by nothing.
C9_PreflightStops ==
    /\ (~Truthy(ANTHROPIC_API_KEY) =>
          /\ pc \in {"main", "done"}
          /\ client = None /\ few_shot_examples = None /\ dev_set = None
          /\ calls = <<>> /\ total_predictions = 0
          /\ (pc = "done" => reported = <<"missing_key">>))
    /\ (pc \in {"done", "crashed"} /\ Truthy(ANTHROPIC_API_KEY)
          => IF few_shot_file = None
             THEN pc = "crashed" /\ calls = <<>> /\ ~LoopStarted
             ELSE IF few_shot_file[1] = <<>>
             THEN /\ pc = "done" /\ reported = <<"no_few_shot">>
                  /\ calls = <<>> /\ ~LoopStarted
             ELSE IF dev_file = None
             THEN pc = "crashed" /\ calls = <<>> /\ ~LoopStarted
             ELSE /\ pc = "done"
                  /\ dev_set = dev_file
                  /\ total_predictions = Len(dev_file[1])
                  /\ Len(calls) = Len(dev_file[1]))
    /\ (LoopStarted => pc # "crashed")

\* C9 witness: the script has ended on an empty credential although both
\* data files were there, the dev file with records.
C9_Witness ==
    /\ pc = "done"
    /\ ANTHROPIC_API_KEY = Some(<<>>)
    /\ reported = <<"missing_key">>
    /\ few_shot_file # None /\ few_shot_file[1] # <<>>
    /\ dev_file # None /\ dev_file[1] # <<>>
    /\ calls = <<>>

\* C10: after every iteration correct_predictions + len(failure_cases)
\* = total_predictions; every processed record has either one failure case
\* or one count in correct_predictions, never both, never neither; the ids
\* of the failure cases are a subsequence of the record ids; at return
\* correct + failures is the number of target records.
C10_Accounting ==
    LoopStarted =>
        /\ correct_predictions + Len(failure_cases) = total_predictions
        /\ total_predictions = idx
        /\ \A k \in 1..idx : Cardinality(CasesOf(k)) <= 1
        /\ correct_predictions = Cardinality({k \in 1..idx : CasesOf(k) = {}})
        /\ IsSubsequence([j \in 1..Len(failure_cases) |-> failure_cases[j].id],
                         [k \in 1..Len(dev_set[1]) |-> dev_set[1][k].id])
        /\ (pc \in {"report", "done"}
              => correct_predictions + Len(failure_cases) = Len(dev_set[1]))

\* C10 witness: a finished run with a correct record and a failed one.
C10_Witness ==
    /\ pc = "done"
    /\ LoopStarted
    /\ correct_predictions >= 1
    /\ Len(failure_cases) >= 1
    /\ correct_predictions + Len(failure_cases) = Len(dev_set[1])

---------------------------------------------------------------------------
(* Properties of evaluate_gsm8k_response (SpecScore)                       *)

---------------------------------------------------------------------------
(* Properties of extract_gsm8k_answer (SpecExtract)                        *)

HasDigit(s) == \E k \in 1..Len(s) : IsDigit(s[k])

HasMarker(t) == \E p \in 1..Len(t) : MarkerAt(t, p)

\* The numeric literals of a text, left to right: the number pattern's
\* matches that hold a digit.
NumericLiterals(t) == SelectSeq(FindAllNumbers(t, 1), HasDigit)

\* C6: for a non-empty text, if "####" is followed by a numeric literal the
\* result is the literal after the first such marker with the separators
\* removed; if the text has no marker the result is the last numeric
\* literal of the text with the separators removed, and absent only if the
\* text has no numeric literal.
C6_TwoTierPolicy ==
    ex_pc = "returned" /\ Truthy(ex_text) =>
        \A t \in {ex_text[1]} :
            /\ SearchMarker(t) # None
                 => ex_result = Some(RemoveCommas(SearchMarker(t)[1]))
            /\ ~HasMarker(t)
                 => \A literals \in {NumericLiterals(t)} :
                        IF literals = <<>> THEN ex_result = None
                        ELSE ex_result =
                                 Some(Strip(RemoveCommas(literals[Len(literals)])))

\* C7: the result is absent or a string with no thousands separator that is
\* neither empty nor a lone decimal point, on the marker path as on the
\* fallback path; an empty or absent input gives absent.
C7_NormalizedOrAbsent ==
    ex_pc = "returned" =>
        /\ (~Truthy(ex_text) => ex_result = None)
        /\ (ex_result # None =>
              /\ \A k \in 1..Len(ex_result[1]) : ex_result[1][k] # ","
              /\ ex_result[1] # <<>>
              /\ ex_result[1] # <<".">>)

---------------------------------------------------------------------------
(* Properties of create_gsm8k_prompt (SpecPrompt)                          *)

\* The block of one example.
Block(ex) ==
    QuestionLabel \o ex.question \o <<"\n">>
        \o AnswerLabel \o ex.answer \o <<"\n", "\n">>

\* The target question and the open cue.
TargetPart(question) == QuestionLabel \o question \o <<"\n">> \o AnswerCue

\* The length of the first n blocks.
RECURSIVE BlocksLen(_, _)
BlocksLen(examples, n) ==
    IF n = 0 THEN 0 ELSE BlocksLen(examples, n - 1) + Len(Block(examples[n]))

\* The part of prompt p where the i-th block of `examples` lies.
BlockAt(p, examples, i) ==
    SubSeq(p, Len(Preamble) + BlocksLen(examples, i - 1) + 1,
              Len(Preamble) + BlocksLen(examples, i))

\* p is the preamble, one block per example in the given order, the target
\* question and the cue, and nothing else.
WellShaped(p, question, examples) ==
    /\ Len(p) = Len(Preamble) + BlocksLen(examples, Len(examples))
                    + Len(TargetPart(question))
    /\ SubSeq(p, 1, Len(Preamble)) = Preamble
    /\ \A i \in 1..Len(examples) : BlockAt(p, examples, i) = Block(examples[i])
    /\ SubSeq(p, Len(p) - Len(TargetPart(question)) + 1, Len(p))
           = TargetPart(question)
    /\ SubSeq(p, Len(p) - Len(AnswerCue) + 1, Len(p)) = AnswerCue

\* C8: the prompt is the preamble, then one "Question: q / Answer: a" block
\* per example in the given order (the i-th block from the i-th example),
\* then "Question: target" and the open "Answer:" cue that ends it; swapping
\* two examples swaps their two blocks, keeps every other block, the number
\* of blocks and the total length.
C8_PromptShape ==
    /\ (pb_pc \in {"built", "swapped"}
          => WellShaped(pb_prompt, pb_question, pb_examples))
    /\ (pb_pc = "swapped" =>
          \A swapped \in {SwapExamples(pb_examples, pb_swap[1], pb_swap[2])} :
              /\ WellShaped(pb_swapped, pb_question, swapped)
              /\ Len(pb_swapped) = Len(pb_prompt)
              /\ BlockAt(pb_swapped, swapped, pb_swap[1])
                     = BlockAt(pb_prompt, pb_examples, pb_swap[2])
              /\ BlockAt(pb_swapped, swapped, pb_swap[2])
                     = BlockAt(pb_prompt, pb_examples, pb_swap[1])
              /\ \A k \in 1..Len(pb_examples) :
                    k \notin {pb_swap[1], pb_swap[2]}
                        => BlockAt(pb_swapped, swapped, k)
                               = Block(pb_examples[k]))

\* C8 witness: a prompt of three examples rebuilt after two different
\* examples were swapped, which changed the prompt.
C8_Witness ==
    /\ pb_pc = "swapped"
    /\ Len(pb_examples) >= 3
    /\ pb_examples[pb_swap[1]] # pb_examples[pb_swap[2]]
    /\ pb_swapped # pb_prompt
    /\ Len(pb_swapped) = Len(pb_prompt)

====
